---- MODULE Spec2Model ----
(***************************************************************************)
(* Model of l5kit/kinematic/ackerman_perturbation.py.                      *)
(*                                                                         *)
(* Numbers.  Floating-point values are fixed-point integers: one unit is   *)
(* the resolution of a float64 value, a float32 value is a multiple of     *)
(* Float32Step units, sqrt rounds down and division truncates toward 0.    *)
(* Magnitudes are scaled so that NUMERICAL_THRESHOLD is a few units: the   *)
(* sub-threshold, non-zero cases then fit into TLC's integers.  A          *)
(* direction (a vector divided by its norm) is held in units of 1/DirUnit. *)
(*                                                                         *)
(* Storage.  numpy buffers live in mem, a heap indexed by buffer id;       *)
(* ndarray.copy() allocates a fresh id.  The caller's history_frames and   *)
(* future_frames are buffers HistoryBuf and FutureBuf.                     *)
(***************************************************************************)
EXTENDS Integers, Sequences, FiniteSets, TLC

VARIABLES
    mode,          \* which entry point this run exercises
    pc,            \* "ready", then the entry point's completion
    perturb_prob,  \* AckermanPerturbation.perturb_prob, in quarters
    warnings,      \* the RuntimeWarnings emitted so far
    mem,           \* heap: buffer id -> sequence of frames
    given,         \* the values the caller's buffers held when perturb was called
    ret,           \* ids of the buffers perturb returned (<<0, 0>>: none)
    call,          \* what the last perturb call did
    fn             \* argument and result of a module-level function call

vars == <<mode, pc, perturb_prob, warnings, mem, given, ret, call, fn>>

----------------------------------------------------------------------------
(* Bounds and constants *)

MaxFrames == 3

NUMERICAL_THRESHOLD == 5
consecutive_point_distance_threshold == 5
AnchorWeight == 5

\* np.float32: values are multiples of this many float64 units
Float32Step == 2 * 2
\* resolution of a normalised direction: divisible by every norm up to 5
DirUnit == 3 * 4 * 5
\* np.random.rand() draws, and perturb_prob, in quarters of 1
RandUnit == 2 * 2

HistoryBuf == 1
FutureBuf == 2
FreshHistoryBuf == 3
FreshFutureBuf == 4

----------------------------------------------------------------------------
(* Arithmetic *)

Abs(a) == IF a < 0 THEN -a ELSE a

\* float division, truncating toward zero
FDiv(a, b) == IF a >= 0 THEN a \div b ELSE -((-a) \div b)

RECURSIVE SqrtFrom(_, _)
SqrtFrom(n, r) == IF (r + 1) * (r + 1) > n THEN r ELSE SqrtFrom(n, r + 1)

\* np.sqrt
Sqrt(n) == SqrtFrom(n, 0)

RECURSIVE SumSq(_)
SumSq(v) == IF v = <<>> THEN 0 ELSE Head(v) * Head(v) + SumSq(Tail(v))

\* np.linalg.norm, over every component of v
Norm(v) == Sqrt(SumSq(v))

VecSub(a, b) == [i \in 1..Len(a) |-> a[i] - b[i]]

\* v / np.linalg.norm(v): a direction, in units of 1/DirUnit
Normalized(v) == [i \in 1..Len(v) |-> FDiv(v[i] * DirUnit, Norm(v))]

\* offset_m * direction component
Times(m, c) == FDiv(m * c, DirUnit)

\* astype(np.float32): round to the nearest float32 value
AsFloat32(v) ==
    IF v >= 0 THEN ((v + Float32Step \div 2) \div Float32Step) * Float32Step
    ELSE -(((-v + Float32Step \div 2) \div Float32Step) * Float32Step)

Reverse(s) == [i \in 1..Len(s) |-> s[Len(s) + 1 - i]]

\* a[i] for a Python index i (negative indices count from the end); 0 if out of range
PyIndex(n, i) == IF i >= 0 /\ i < n THEN i + 1
                 ELSE IF i < 0 /\ -i <= n THEN n + i + 1
                 ELSE 0

----------------------------------------------------------------------------
(* geometry: rotation <-> yaw.  A rotation is its yaw and whatever else    *)
(* the matrix encodes (roll and pitch), here "tilt".                       *)

rotation33_as_yaw(rot) == rot.yaw

yaw_as_rotation33(yaw) == [yaw |-> yaw, tilt |-> 0]

----------------------------------------------------------------------------
(* get_offset_at_idx *)

LateralDirectionFlipped(dir) == <<-dir[2], dir[1]>>

LateralDirection(dir) == <<dir[2], -dir[1]>>

LongitudinalDirection(trajectory, perturbation_idx) ==
    LET n == Len(trajectory)
        point_to_be_perturbed == trajectory[PyIndex(n, perturbation_idx)]
        next_point_in_trajectory == trajectory[PyIndex(n, perturbation_idx + 1)]
        step == VecSub(next_point_in_trajectory, point_to_be_perturbed)
        overall == VecSub(trajectory[n], trajectory[1])
    IN  IF Norm(step) < consecutive_point_distance_threshold
        THEN IF Norm(overall) < consecutive_point_distance_threshold
             THEN <<0, 0>>
             ELSE Normalized(overall)
        ELSE Normalized(step)

get_offset_at_idx(trajectory, perturbation_idx, lateral_offset_m, longitudinal_offset_m) ==
    IF Len(trajectory) <= perturbation_idx + 1
    THEN <<0, 0>>
    ELSE LET longitudinal_direction == LongitudinalDirection(trajectory, perturbation_idx)
             lateral_direction == LateralDirection(longitudinal_direction)
         IN  << Times(lateral_offset_m, lateral_direction[1])
                  + Times(longitudinal_offset_m, longitudinal_direction[1]),
                Times(lateral_offset_m, lateral_direction[2])
                  + Times(longitudinal_offset_m, longitudinal_direction[2]) >>

----------------------------------------------------------------------------
(* _get_history_and_future_frames_as_joint_trajectory *)

\* one row of combined_trajectory (dtype float32): x, y, yaw of a frame
PoseRow(frame) ==
    << AsFloat32(frame.ego_translation[1]),
       AsFloat32(frame.ego_translation[2]),
       AsFloat32(rotation33_as_yaw(frame.ego_rotation)) >>

JointTrajectoryUnreversed(history_frames, future_frames) ==
    [k \in 1..(Len(history_frames) + Len(future_frames)) |->
        IF k <= Len(history_frames)
        THEN PoseRow(history_frames[k])
        ELSE PoseRow(future_frames[k - Len(history_frames)])]

JointTrajectory(history_frames, future_frames) ==
    LET num_history_frames == Len(history_frames)
        num_future_frames == Len(future_frames)
        total_trajectory_length == num_history_frames + num_future_frames
        reversed == Reverse(history_frames)
    IN  [k \in 1..total_trajectory_length |->
            IF k <= num_history_frames
            THEN PoseRow(reversed[k])
            ELSE PoseRow(future_frames[k - num_history_frames])]

----------------------------------------------------------------------------
(* _compute_speeds_from_positions *)

\* the outcome of a call that raises IndexError (no speed is negative)
IndexError == <<-1>>

SpeedsLastZero(trajectory) ==
    LET n == Len(trajectory)
    IN  IF n < 2 THEN IndexError
        ELSE [k \in 1..n |->
                IF k < n THEN Norm(VecSub(trajectory[k + 1], trajectory[k])) ELSE 0]

compute_speeds_from_positions(trajectory) ==
    LET n == Len(trajectory)
        diffs == [k \in 1..n |->
                    IF k < n
                    THEN Sqrt((trajectory[k + 1][2] - trajectory[k][2]) * (trajectory[k + 1][2] - trajectory[k][2])
                            + (trajectory[k + 1][1] - trajectory[k][1]) * (trajectory[k + 1][1] - trajectory[k][1]))
                    ELSE 0]
    IN  IF n < 2 THEN IndexError  \* speeds[-2] does not exist
        ELSE [diffs EXCEPT ![n] = diffs[n - 1]]

----------------------------------------------------------------------------
(* fit_ackerman_model_exact (ackerman_steering_model.py): the outcomes of  *)
(* the solver are not determined here; two fits of the right length stand  *)
(* for them: the targets themselves, and a straight roll from the initial  *)
(* state.                                                                  *)

fit_ackerman_model_exact(x0, y0, r0, v0, gx, gy, gr, gv, wgx, wgy, wgr, wgv) ==
    { [xs |-> gx, ys |-> gy, yaws |-> gr],
      [xs |-> [k \in 1..Len(gx) |-> x0 + (k - 1) * v0],
       ys |-> [k \in 1..Len(gx) |-> y0],
       yaws |-> [k \in 1..Len(gx) |-> r0]] }

----------------------------------------------------------------------------
(* AckermanPerturbation.perturb *)

\* np.random.rand() >= self.perturb_prob
GateClosedStrict(draw, prob) == draw > prob

GateClosed(draw, prob) == draw >= prob

\* np.abs(lateral_offset_m) < NUMERICAL_THRESHOLD
LowLateralAndLongitudinal(sample) ==
    Abs(sample[1]) < NUMERICAL_THRESHOLD /\ Abs(sample[2]) < NUMERICAL_THRESHOLD

LowLateral(sample) == Abs(sample[1]) < NUMERICAL_THRESHOLD

\* total_trajectory_length < 2
TooShortOffByOne(total_trajectory_length) == total_trajectory_length < 1

TooShort(total_trajectory_length) == total_trajectory_length < 2

\* ndarray.copy(): the id of the buffer that holds the copy
CopyAliased(buf, fresh) == buf

Copy(buf, fresh) == fresh

\* wgx, wgy: np.ones(total); w[num_history_frames - 1] = 5
PositionWeights(total_trajectory_length, num_history_frames) ==
    LET ones == [k \in 1..total_trajectory_length |-> 1]
    IN  [ones EXCEPT ![PyIndex(total_trajectory_length, num_history_frames - 1)] = AnchorWeight]

\* wgr, wgv: np.zeros(total)
ZeroWeights(total_trajectory_length) == [k \in 1..total_trajectory_length |-> 0]

\* trajectory_with_offset_applied: the anchor row moved and turned (float32 +=)
WithOffsetApplied(reference_traj_sample, num_history_frames, offset_m, yaw_offset_rad) ==
    [reference_traj_sample EXCEPT
        ![PyIndex(Len(reference_traj_sample), num_history_frames - 1)] =
            << AsFloat32(@[1] + offset_m[1]),
               AsFloat32(@[2] + offset_m[2]),
               AsFloat32(@[3] + yaw_offset_rad) >>]

Column(trajectory, c) == [k \in 1..Len(trajectory) |-> trajectory[k][c]]

PositionsOf(trajectory) == [k \in 1..Len(trajectory) |-> <<trajectory[k][1], trajectory[k][2]>>]

\* new_history_frames after the writes through [::-1]
SplitHistory(history_copy, new_trajectory) ==
    LET num_history_frames == Len(history_copy)
    IN  [i \in 1..num_history_frames |->
            [history_copy[i] EXCEPT
                !.ego_translation = << new_trajectory[num_history_frames + 1 - i][1],
                                       new_trajectory[num_history_frames + 1 - i][2],
                                       @[3] >>,
                !.ego_rotation = yaw_as_rotation33(new_trajectory[num_history_frames + 1 - i][3])]]

\* new_future_frames after the writes
SplitFuture(future_copy, new_trajectory, num_history_frames) ==
    [j \in 1..Len(future_copy) |->
        [future_copy[j] EXCEPT
            !.ego_translation = << new_trajectory[num_history_frames + j][1],
                                   new_trajectory[num_history_frames + j][2],
                                   @[3] >>,
            !.ego_rotation = yaw_as_rotation33(new_trajectory[num_history_frames + j][3])]]

NoArgs == [x0 |-> 0, y0 |-> 0, r0 |-> 0, v0 |-> 0,
           gx |-> <<>>, gy |-> <<>>, gr |-> <<>>, gv |-> <<>>,
           wgx |-> <<>>, wgy |-> <<>>, wgr |-> <<>>, wgv |-> <<>>]

NoCall == [path |-> "none", draw |-> 0, sample |-> <<>>, sampler |-> 0, fit |-> 0,
           speeds_len |-> -1, reference |-> <<>>, offset_m |-> <<>>, args |-> NoArgs]

\* lines 114-146: everything perturb hands to the fit
FitInputs(history_frames, future_frames, sample) ==
    LET num_history_frames == Len(history_frames)
        total_trajectory_length == num_history_frames + Len(future_frames)
        reference_traj_sample == JointTrajectory(history_frames, future_frames)
        offset_m == get_offset_at_idx(reference_traj_sample, num_history_frames - 1,
                                      sample[1], sample[2])
        trajectory_with_offset_applied ==
            WithOffsetApplied(reference_traj_sample, num_history_frames, offset_m, sample[3])
        gv == compute_speeds_from_positions(PositionsOf(trajectory_with_offset_applied))
    IN  [reference |-> reference_traj_sample,
         offset_m |-> offset_m,
         raised |-> (PyIndex(total_trajectory_length, num_history_frames - 1) = 0
                     \/ gv = IndexError),
         args |-> IF gv = IndexError THEN NoArgs
                  ELSE [x0 |-> trajectory_with_offset_applied[1][1],
                        y0 |-> trajectory_with_offset_applied[1][2],
                        r0 |-> trajectory_with_offset_applied[1][3],
                        v0 |-> gv[1],
                        gx |-> Column(trajectory_with_offset_applied, 1),
                        gy |-> Column(trajectory_with_offset_applied, 2),
                        gr |-> Column(trajectory_with_offset_applied, 3),
                        gv |-> gv,
                        wgx |-> PositionWeights(total_trajectory_length, num_history_frames),
                        wgy |-> PositionWeights(total_trajectory_length, num_history_frames),
                        wgr |-> ZeroWeights(total_trajectory_length),
                        wgv |-> ZeroWeights(total_trajectory_length)]]

\* return history_frames.copy(), future_frames.copy()
ReturnCopies(path, draw, sample, sampler) ==
    LET rh == Copy(HistoryBuf, FreshHistoryBuf)
        rf == Copy(FutureBuf, FreshFutureBuf)
    IN  /\ ret' = <<rh, rf>>
        /\ mem' = [mem EXCEPT ![rh] = mem[HistoryBuf], ![rf] = mem[FutureBuf]]
        /\ call' = [NoCall EXCEPT !.path = path, !.draw = draw, !.sample = sample,
                                  !.sampler = sampler]

\* lines 148-175: the fit, and its result written into fresh copies
FitAndSplit(draw, sample) ==
    LET history_frames == mem[HistoryBuf]
        future_frames == mem[FutureBuf]
        inputs == FitInputs(history_frames, future_frames, sample)
        a == inputs.args
        made == [NoCall EXCEPT !.draw = draw, !.sample = sample, !.sampler = 1,
                               !.reference = inputs.reference, !.offset_m = inputs.offset_m]
    IN  IF inputs.raised
        THEN /\ call' = [made EXCEPT !.path = "raised"]
             /\ UNCHANGED <<mem, ret>>
        ELSE \E fitted \in fit_ackerman_model_exact(a.x0, a.y0, a.r0, a.v0, a.gx, a.gy, a.gr,
                                                    a.gv, a.wgx, a.wgy, a.wgr, a.wgv) :
                LET new_trajectory == [k \in 1..Len(fitted.xs) |->
                                          <<fitted.xs[k], fitted.ys[k], fitted.yaws[k]>>]
                    rh == Copy(HistoryBuf, FreshHistoryBuf)
                    rf == Copy(FutureBuf, FreshFutureBuf)
                    copied == [mem EXCEPT ![rh] = history_frames, ![rf] = future_frames]
                IN  /\ ret' = <<rh, rf>>
                    /\ mem' = [copied EXCEPT
                                  ![rh] = SplitHistory(copied[rh], new_trajectory),
                                  ![rf] = SplitFuture(copied[rf], new_trajectory,
                                                      Len(history_frames))]
                    /\ call' = [made EXCEPT !.path = "fit", !.fit = 1,
                                            !.speeds_len = Len(a.gv), !.args = a]
----------------------------------------------------------------------------
(* Inputs *)

Frame(x, y, z, yaw, tilt) ==
    [ego_translation |-> <<x, y, z>>, ego_rotation |-> [yaw |-> yaw, tilt |-> tilt]]

\* the frames a caller's buffer may hold: two at the same place with
\* different headings, one a 3-4-5 step away, one with values that are not
\* float32 values and a rotation that is not a pure yaw
Frames == { Frame(0, 0, 0, 0, 0), Frame(0, 0, 0, 8, 0),
            Frame(12, 16, 0, 0, 0), Frame(25, 0, 7, 3, 1) }

\* what a caller writes into a buffer it was handed back
Scribble == Frame(-1, -1, -1, -1, -1)

\* np.random.rand(), in [0, 1)
Draws == {0, RandUnit \div 2}

PerturbProbs == {0, RandUnit \div 2, RandUnit}

\* what random_offset_generator() may return: (lateral_m, longitudinal_m, yaw_rad)
Samples == { <<0, 0, 0>>, <<4, 10, 8>>, <<5, 0, 0>>,
             <<-5, 10, 0>>, <<20, 0, 8>>, <<-20, 10, 8>> }

\* a length of 1 in the worked examples
One == 2 * NUMERICAL_THRESHOLD

Points == { <<0, 0>>, <<3, 0>>, <<One, 0>>, <<2 * One, 0>>, <<12, 16>> }

OffsetsM == {0, One, -7}

SpeedPoints == { <<0, 0>>, <<3, 4>>, <<1, 1>>, <<12, 16>> }

SeqsUpTo(S, n) == UNION { [1..m -> S] : m \in 0..n }

NoFn == [op |-> "none"]

InitPerturb ==
    /\ mode = "perturb"
    /\ \E n \in 0..MaxFrames : \E h \in 0..n :
         \E history_frames \in [1..h -> Frames], future_frames \in [1..(n - h) -> Frames] :
            /\ mem = [b \in HistoryBuf..FreshFutureBuf |->
                        IF b = HistoryBuf THEN history_frames
                        ELSE IF b = FutureBuf THEN future_frames ELSE <<>>]
            /\ given = [history |-> history_frames, future |-> future_frames]
    \* __init__ warns when perturb_prob == 0
    /\ perturb_prob \in PerturbProbs
    /\ warnings = IF perturb_prob = 0 THEN {"no perturbation is intended"} ELSE {}
    /\ fn = NoFn

InitFunction ==
    /\ mem = [b \in HistoryBuf..FreshFutureBuf |-> <<>>]
    /\ given = [history |-> <<>>, future |-> <<>>]
    /\ perturb_prob = 0
    /\ warnings = {}
    /\ \/ /\ mode = "offset"
          /\ \E trajectory \in SeqsUpTo(Points, MaxFrames), idx \in 0..MaxFrames,
                lat \in OffsetsM, lon \in OffsetsM :
                fn = [op |-> "get_offset_at_idx", trajectory |-> trajectory,
                      perturbation_idx |-> idx, lateral_offset_m |-> lat,
                      longitudinal_offset_m |-> lon, out |-> <<>>]
       \/ /\ mode = "speeds"
          /\ \E trajectory \in SeqsUpTo(SpeedPoints, MaxFrames) :
                fn = [op |-> "_compute_speeds_from_positions", trajectory |-> trajectory,
                      out |-> <<>>]

Init ==
    /\ pc = "ready"
    /\ ret = <<0, 0>>
    /\ call = NoCall
    /\ (InitPerturb \/ InitFunction)

----------------------------------------------------------------------------
(* Actions *)

\* one call of perturb(history_frames, future_frames)
Perturb ==
    /\ mode = "perturb" /\ pc = "ready"
    /\ pc' = "returned"
    /\ UNCHANGED <<mode, perturb_prob, given, fn>>
    /\ \E draw \in Draws :
        IF GateClosed(draw, perturb_prob)
        THEN /\ ReturnCopies("gate", draw, <<>>, 0)
             /\ UNCHANGED warnings
        ELSE \E sample \in Samples :
            IF LowLateral(sample)
            THEN /\ ReturnCopies("low_lateral", draw, sample, 1)
                 /\ warnings' = warnings \cup {"ack not applied because of low lateral_distance"}
            ELSE IF TooShort(Len(mem[HistoryBuf]) + Len(mem[FutureBuf]))
            THEN /\ ReturnCopies("too_short", draw, sample, 1)
                 /\ UNCHANGED warnings
            ELSE /\ FitAndSplit(draw, sample)
                 /\ UNCHANGED warnings

\* the caller writes into a buffer perturb returned
CallerWrite ==
    /\ mode = "perturb" /\ pc = "returned" /\ call.path # "raised"
    /\ \E which \in 1..2 :
         /\ Len(mem[ret[which]]) >= 1
         /\ mem' = [mem EXCEPT ![ret[which]][1] = Scribble]
    /\ pc' = "written"
    /\ UNCHANGED <<mode, perturb_prob, warnings, given, ret, call, fn>>

\* the join of lines 48-66 followed by the split of lines 163-175 on the
\* joined sequence itself
JoinThenSplit ==
    /\ mode = "perturb" /\ pc = "ready"
    /\ LET joined == JointTrajectory(mem[HistoryBuf], mem[FutureBuf])
       IN  fn' = [op |-> "join_split", joined |-> joined,
                  history |-> SplitHistory(mem[HistoryBuf], joined),
                  future |-> SplitFuture(mem[FutureBuf], joined, Len(mem[HistoryBuf]))]
    /\ pc' = "rejoined"
    /\ UNCHANGED <<mode, perturb_prob, warnings, mem, given, ret, call>>

GetOffsetAtIdx ==
    /\ mode = "offset" /\ pc = "ready"
    /\ fn' = [fn EXCEPT !.out = get_offset_at_idx(fn.trajectory, fn.perturbation_idx,
                                                   fn.lateral_offset_m, fn.longitudinal_offset_m)]
    /\ pc' = "done"
    /\ UNCHANGED <<mode, perturb_prob, warnings, mem, given, ret, call>>

ComputeSpeeds ==
    /\ mode = "speeds" /\ pc = "ready"
    /\ fn' = [fn EXCEPT !.out = compute_speeds_from_positions(fn.trajectory)]
    /\ pc' = "done"
    /\ UNCHANGED <<mode, perturb_prob, warnings, mem, given, ret, call>>

Next == Perturb \/ CallerWrite \/ JoinThenSplit \/ GetOffsetAtIdx \/ ComputeSpeeds

Spec == Init /\ [][Next]_vars

----------------------------------------------------------------------------
(* Properties *)

NumHistory == Len(given.history)
NumFuture == Len(given.future)
Called == mode = "perturb" /\ pc \in {"returned", "written"}
OutputEqualsInput ==
    /\ call.path # "raised"
    /\ mem[ret[1]] = given.history
    /\ mem[ret[2]] = given.future

\* C1: a call whose uniform draw is >= perturb_prob returns the values of the
\* input history and future and invokes neither the offset sampler nor the
\* fit; with perturb_prob = 0 every call takes this path.
C1_GateIdentity ==
    (mode = "perturb" /\ pc = "returned" /\ call.draw >= perturb_prob) =>
        /\ OutputEqualsInput
        /\ call.path = "gate"
        /\ call.sampler = 0
        /\ call.fit = 0

C1_Witness ==
    /\ mode = "perturb" /\ pc = "returned"
    /\ call.path = "gate" /\ call.draw = perturb_prob /\ perturb_prob > 0
    /\ NumHistory >= 1 /\ NumFuture >= 1

\* C2: a call whose sampled lateral offset is below NUMERICAL_THRESHOLD in
\* magnitude returns the input values without invoking the fit, whatever the
\* longitudinal and yaw offsets and whatever H and F; it warns and does not raise.
C2_LowLateralNoOp ==
    (mode = "perturb" /\ pc = "returned" /\ call.sampler = 1
        /\ Abs(call.sample[1]) < NUMERICAL_THRESHOLD) =>
        /\ OutputEqualsInput
        /\ call.path = "low_lateral"
        /\ call.fit = 0
        /\ "ack not applied because of low lateral_distance" \in warnings

C2_Witness ==
    /\ mode = "perturb" /\ pc = "returned"
    /\ call.path = "low_lateral"
    /\ call.sample[1] # 0 /\ call.sample[2] >= NUMERICAL_THRESHOLD
    /\ call.sample[3] # 0
    /\ NumHistory + NumFuture >= 2

\* C3: with H + F < 2 perturb returns the input values whatever the draw and
\* the sampled offset, and reaches neither the speed estimator nor the fit.
C3_TooShortIdentity ==
    (mode = "perturb" /\ pc = "returned" /\ NumHistory + NumFuture < 2) =>
        /\ OutputEqualsInput
        /\ call.speeds_len = -1
        /\ call.fit = 0

C3_Witness ==
    /\ mode = "perturb" /\ pc = "returned"
    /\ call.path = "too_short"
    /\ NumHistory + NumFuture = 1
    /\ Abs(call.sample[1]) >= NUMERICAL_THRESHOLD

\* C4: on every path through perturb the caller's buffers hold the same values
\* after the call as before, and the returned buffers are other storage: the
\* caller's later write to a returned buffer changes no input buffer.
C4_InputsUntouched ==
    Called =>
        /\ call.path # "raised"
        /\ mem[HistoryBuf] = given.history
        /\ mem[FutureBuf] = given.future
        /\ {ret[1], ret[2]} \cap {HistoryBuf, FutureBuf} = {}
        /\ ret[1] # ret[2]

C4_Witness ==
    /\ mode = "perturb" /\ pc = "written"
    /\ call.path = "fit"
    /\ NumHistory >= 1 /\ NumFuture >= 1
    /\ mem[ret[1]][1] = Scribble
    /\ mem[HistoryBuf] = given.history

\* the slots of the joined sequence: slot k < H is history[H-1-k], slot H+j
\* is future[j] (0-based), each as the float32 row of that frame
JoinedInOrder ==
    /\ Len(fn.joined) = NumHistory + NumFuture
    /\ \A k \in 0..(NumHistory - 1) :
          fn.joined[k + 1] = PoseRow(given.history[(NumHistory - 1 - k) + 1])
    /\ \A j \in 0..(NumFuture - 1) :
          fn.joined[NumHistory + j + 1] = PoseRow(given.future[j + 1])

C6_AnchorWeights ==
    (Called /\ call.fit = 1) =>
        /\ Len(call.args.wgx) = NumHistory + NumFuture
        /\ Len(call.args.wgy) = NumHistory + NumFuture
        /\ \A k \in 0..(NumHistory + NumFuture - 1) :
              /\ call.args.wgx[k + 1] = (IF k = NumHistory - 1 THEN 5 ELSE 1)
              /\ call.args.wgy[k + 1] = (IF k = NumHistory - 1 THEN 5 ELSE 1)
        /\ call.args.wgr = [k \in 1..(NumHistory + NumFuture) |-> 0]
        /\ call.args.wgv = [k \in 1..(NumHistory + NumFuture) |-> 0]

\* the direction the claim describes at index i of positions t: the step to
\* the next position unless it is below the threshold, else the overall
\* displacement unless that is below the threshold, else none
ClaimedDirection(t, i) ==
    LET n == Len(t)
        step == <<t[i + 2][1] - t[i + 1][1], t[i + 2][2] - t[i + 1][2]>>
        overall == <<t[n][1] - t[1][1], t[n][2] - t[1][2]>>
        limit == consecutive_point_distance_threshold * consecutive_point_distance_threshold
        d == IF step[1] * step[1] + step[2] * step[2] >= limit THEN step
             ELSE IF overall[1] * overall[1] + overall[2] * overall[2] >= limit THEN overall
             ELSE <<0, 0>>
    IN  [d |-> d, unit |-> IF d = <<0, 0>> THEN <<0, 0>> ELSE Normalized(d)]

\* the norm of d is a whole number that divides its scaled components
NormalisesExactly(d) ==
    /\ Norm(d) * Norm(d) = d[1] * d[1] + d[2] * d[2]
    /\ Norm(d) > 0
    /\ (d[1] * DirUnit) % Norm(d) = 0
    /\ (d[2] * DirUnit) % Norm(d) = 0

\* C7: get_offset_at_idx on n positions and index i returns the zero vector if
\* n <= i+1, and otherwise lateral_m * (d.y, -d.x) + longitudinal_m * d for the
\* unit vector d of pose[i+1] - pose[i], or of pose[n-1] - pose[0] when the
\* former is below the threshold, or (0,0) when both are; (0,0),(1,0) with
\* lateral 1 at index 0 gives (0,-1), and a trajectory stationary at the index
\* with overall displacement (2,0) has direction (1,0).
C7_OffsetAtIdx ==
    (mode = "offset" /\ pc = "done") =>
        LET t == fn.trajectory
            i == fn.perturbation_idx
            lat == fn.lateral_offset_m
            lon == fn.longitudinal_offset_m
        IN  /\ Len(t) <= i + 1 => fn.out = <<0, 0>>
            /\ Len(t) > i + 1 =>
                LET c == ClaimedDirection(t, i)
                IN  /\ fn.out = << Times(lat, c.unit[2]) + Times(lon, c.unit[1]),
                                   Times(lat, -c.unit[1]) + Times(lon, c.unit[2]) >>
                    /\ c.d = <<0, 0>> => fn.out = <<0, 0>>
                    /\ (c.d # <<0, 0>> /\ NormalisesExactly(c.d)) =>
                          c.unit[1] * c.unit[1] + c.unit[2] * c.unit[2] = DirUnit * DirUnit
            /\ (t = << <<0, 0>>, <<One, 0>> >> /\ i = 0 /\ lat = One /\ lon = 0)
                  => fn.out = <<0, -One>>
            /\ (t = << <<0, 0>>, <<0, 0>>, <<2 * One, 0>> >> /\ i = 0 /\ lat = 0 /\ lon = One)
                  => fn.out = <<One, 0>>

C7_Witness ==
    /\ mode = "offset" /\ pc = "done"
    /\ fn.trajectory = << <<0, 0>>, <<3, 0>>, <<12, 16>> >>
    /\ fn.perturbation_idx = 0
    /\ fn.lateral_offset_m = One /\ fn.longitudinal_offset_m = One
    /\ fn.out = <<14, 2>>

\* speeds s are the distances between consecutive positions (xs, ys), to the
\* resolution of the arithmetic, the last one repeating the one before it
SpeedsOf(s, xs, ys) ==
    LET n == Len(xs)
    IN  /\ Len(s) = n
        /\ \A k \in 1..(n - 1) :
              LET d2 == (xs[k + 1] - xs[k]) * (xs[k + 1] - xs[k])
                          + (ys[k + 1] - ys[k]) * (ys[k + 1] - ys[k])
              IN  s[k] >= 0 /\ s[k] * s[k] <= d2 /\ d2 < (s[k] + 1) * (s[k] + 1)
        /\ s[n] = s[n - 1]

\* C8: given N >= 2 positions the speed estimator returns N speeds, speed[k]
\* the distance from position[k] to position[k+1] for k < N-1 and speed[N-1] =
\* speed[N-2]; (0,0),(3,4),(3,4) give 5, 0, 0; perturb calls it only with
\* N = H + F >= 2.
C8_Speeds ==
    /\ (mode = "speeds" /\ pc = "done" /\ Len(fn.trajectory) >= 2) =>
          /\ SpeedsOf(fn.out, Column(fn.trajectory, 1), Column(fn.trajectory, 2))
          /\ fn.trajectory = << <<0, 0>>, <<3, 4>>, <<3, 4>> >> => fn.out = <<5, 0, 0>>
    /\ (Called /\ call.speeds_len # -1) =>
          /\ call.speeds_len = NumHistory + NumFuture
          /\ call.speeds_len >= 2
          /\ SpeedsOf(call.args.gv, call.args.gx, call.args.gy)
    /\ Called => call.path # "raised"

C8_Witness ==
    /\ mode = "speeds" /\ pc = "done"
    /\ fn.trajectory = << <<0, 0>>, <<3, 4>>, <<3, 4>> >>
    /\ fn.out = <<5, 0, 0>>

\* C9: on the fit path the targets gx, gy, gyaw differ from the joined
\* trajectory only at index H-1, where the position is the original plus the
\* offset vector and the yaw the original plus yaw_rad; every other frame,
\* the last future frame included, is unchanged.
C9_OnlyAnchorChanged ==
    (Called /\ call.fit = 1) =>
        \A k \in 0..(NumHistory + NumFuture - 1) :
            LET row == call.reference[k + 1]
            IN  IF k = NumHistory - 1
                THEN /\ call.args.gx[k + 1] = AsFloat32(row[1] + call.offset_m[1])
                     /\ call.args.gy[k + 1] = AsFloat32(row[2] + call.offset_m[2])
                     /\ call.args.gr[k + 1] = AsFloat32(row[3] + call.sample[3])
                ELSE /\ call.args.gx[k + 1] = row[1]
                     /\ call.args.gy[k + 1] = row[2]
                     /\ call.args.gr[k + 1] = row[3]

\* C10: the displacement added to the anchor is computed from frame positions
\* only, whatever the yaw values: it is the offset at index H-1 of the joined
\* positions, so a stationary anchor falls back to the overall displacement
\* and inputs with the same positions and sampled offset get the same
\* displacement.  Stated for the calls that have an anchor frame (H >= 1).
C10_DisplacementFromPositions ==
    (Called /\ call.fit = 1 /\ NumHistory >= 1) =>
        call.offset_m = get_offset_at_idx(PositionsOf(call.reference), NumHistory - 1,
                                          call.sample[1], call.sample[2])

====
